---- MODULE Spec2Model ----
(***************************************************************************)
(* Model of src/multi.rs: MultiBar (registration API and the blocking      *)
(* render loop `listen`), Pipe (the writer adapter of one bar) and the     *)
(* mpsc channel between them.                                              *)
(*                                                                         *)
(* A text is a sequence of one-character strings, so that l.len() is Len.  *)
(* What is written to the sink is kept item by item: an item is either a   *)
(* cursor-up escape (op = "up", n = line count) or one output line         *)
(* (op = "line", n = number of leading carriage returns, text = the text   *)
(* between the carriage returns and the newline).  The field `slot` of an  *)
(* item is a ghost: the registry index the line was drawn from (-1 for an  *)
(* item that is drawn from no slot); it is not part of the bytes written.  *)
(***************************************************************************)
EXTENDS Integers, Sequences, FiniteSets, TLC

\* ------------------------------------------------------------------ bounds
\* at most MaxLines calls of println / create_bar
MaxLines == 2
\* at most MaxMsgs calls of Pipe::write in one run (create_bar's included)
MaxMsgs == 4

\* the texts a caller passes to println or a bar writes through its Pipe
Texts == { <<>>, <<"a">>, <<"b", "b">> }
NonEmptyTexts == { t \in Texts : Len(t) > 0 }

VARIABLES
    phase,          \* "registering" | "listening" | "returned" | "panicked" | "dropped"
    self_nlines,    \* MultiBar.nlines
    lines,          \* MultiBar.lines, lines[i] is slot i-1
    nbars,          \* MultiBar.nbars
    chan,           \* messages in flight, oldest first
    sender0,        \* MultiBar.chan.0 is not dropped yet
    pipes,          \* pipes[b]: the Pipe of the b-th created bar
    handle,         \* MultiBar.handle: the writes made to the sink, oldest first
    nlines,         \* listen's local nlines
    nblank_lines,   \* listen's local nblank_lines
    max_width,      \* listen's local max_width
    regKind,        \* history: "static" | "bar" for each registration call
    regText,        \* history: the text each slot was registered with
    processed,      \* history: the messages the render loop received
    passes,         \* history: number of redraw passes run
    sentLog,        \* history: the messages sent, in the order of their send calls
    send_failed     \* history: some Pipe::write found the channel closed

vars == << phase, self_nlines, lines, nbars, chan, sender0, pipes, handle,
           nlines, nblank_lines, max_width, regKind, regText, processed, passes,
           sentLog, send_failed >>

regState == << self_nlines, lines, nbars, regKind, regText >>
renderState == << nlines, nblank_lines, max_width >>

\* ------------------------------------------------------------------ helpers
\* max written as min
Max_as_min(a, b) == IF a <= b THEN a ELSE b
\* an assignment where the maximum was meant
Max_second(a, b) == b
Max(a, b) == IF a >= b THEN a ELSE b
Min(a, b) == IF a <= b THEN a ELSE b

\* repeat!(" ", n)
repeat_space(n) == [ i \in 1..n |-> " " ]

\* tty::move_cursor_up(n)
move_cursor_up(n) == [ op |-> "up", n |-> n, text |-> <<>>, slot |-> -1 ]

\* format!("\r{}\n", l) for the registry line of slot s
content_line(l, s) == [ op |-> "line", n |-> 1, text |-> l, slot |-> s ]

\* format!("\r\r{}\n", repeat!(" ", max_width - 1))
padding_line(mw) == [ op |-> "line", n |-> 2, text |-> repeat_space(mw - 1), slot |-> -1 ]

\* format!("\r{}\n", repeat!(" ", max_width - 1))
wipe_line(mw) == [ op |-> "line", n |-> 1, text |-> repeat_space(mw - 1), slot |-> -1 ]

\* printfl!(self.handle, "{}", out): one write of out, then a flush
printfl(h, out) == Append(h, out)

\* WriteMsg { level, string }
WriteMsg(level, string) == [ level |-> level, string |-> string ]

\* mpsc: send appends to the queue
send(c, msg) == Append(c, msg)

AlivePipes == { b \in 1..Len(pipes) : pipes[b].alive }

\* a loop that ends as soon as some bar has released its Sender
Disconnected_first_drop == ~sender0 /\ \E b \in 1..Len(pipes) : ~pipes[b].alive

\* a receive that gives up whenever no message is queued (try_recv)
Disconnected_queue_empty == ~sender0

\* mpsc: recv() fails once the queue is empty and every Sender is dropped
Disconnected == ~sender0 /\ AlivePipes = {}

Sent == Len(processed) + Len(chan)

\* self.chan.1 lives as long as the MultiBar: until it is dropped, or listen
\* (which consumes it) returns or unwinds
ReceiverAlive == phase \in { "registering", "listening" }

\* ------------------------------------------------------------------ Init
\* MultiBar::on
Init ==
    /\ phase = "registering"
    /\ self_nlines = 0
    /\ nbars = 0
    /\ lines = <<>>
    /\ chan = <<>>
    /\ sender0 = TRUE
    /\ pipes = <<>>
    /\ handle = <<>>
    /\ nlines = 0
    /\ nblank_lines = 0
    /\ max_width = 0
    /\ regKind = <<>>
    /\ regText = <<>>
    /\ processed = <<>>
    /\ passes = 0
    /\ sentLog = <<>>
    /\ send_failed = FALSE

\* ------------------------------------------------------------------ registration
\* the body of MultiBar::println
println_push(s) ==
    /\ lines' = Append(lines, s)
    /\ self_nlines' = self_nlines + 1
    /\ regText' = Append(regText, s)

\* MultiBar::println(s), called by the application
println(s) ==
    /\ phase = "registering"
    /\ Len(regKind) < MaxLines
    /\ println_push(s)
    /\ regKind' = Append(regKind, "static")
    /\ UNCHANGED << phase, nbars, chan, sender0, pipes, handle, renderState,
                    processed, passes, sentLog, send_failed >>

\* a level counted in bars instead of in lines
new_level_by_bars == nbars' - 1

\* a level that is the line count itself
new_level_no_minus == self_nlines'

\* the level create_bar binds the new Pipe to: self.nlines - 1 after println("")
new_level == self_nlines' - 1

\* ProgressBar::add(0) on the new bar: one draw through the Pipe, a non-empty text
add0(level, t) ==
    /\ chan' = send(chan, WriteMsg(level, t))
    /\ sentLog' = Append(sentLog, WriteMsg(level, t))

\* MultiBar::create_bar(total)
create_bar(t) ==
    /\ phase = "registering"
    /\ Len(regKind) < MaxLines
    /\ Sent < MaxMsgs
    /\ println_push(<<>>)
    /\ nbars' = nbars + 1
    /\ pipes' = Append(pipes, [ level |-> new_level, alive |-> TRUE ])
    /\ add0(new_level, t)
    /\ regKind' = Append(regKind, "bar")
    /\ UNCHANGED << phase, sender0, handle, renderState, processed, passes,
                    send_failed >>

\* ------------------------------------------------------------------ Pipe
\* a Pipe that writes its text into the registry itself
pipe_send_direct(b, s) ==
    /\ lines' = [ lines EXCEPT ![pipes[b].level + 1] = s ]
    /\ UNCHANGED << phase, self_nlines, nbars, regKind, regText, chan, sender0, pipes,
                    handle, renderState, processed, passes, sentLog, send_failed >>

\* what Pipe::write does to the program state
pipe_send(b, s) ==
    /\ chan' = send(chan, WriteMsg(pipes[b].level, s))
    /\ sentLog' = Append(sentLog, WriteMsg(pipes[b].level, s))
    /\ UNCHANGED << phase, regState, sender0, pipes, handle, renderState,
                    processed, passes, send_failed >>

\* send(..).unwrap() on a channel whose Receiver is gone: the bar's thread panics
\* and its Pipe is dropped with it
pipe_send_fails(b) ==
    /\ send_failed' = TRUE
    /\ pipes' = [ pipes EXCEPT ![b].alive = FALSE ]
    /\ UNCHANGED << phase, regState, chan, sender0, handle, renderState,
                    processed, passes, sentLog >>

\* Pipe::write(buf) by the thread that owns bar b
pipe_write(b, s) ==
    /\ b \in AlivePipes
    /\ IF ReceiverAlive
       THEN Sent < MaxMsgs /\ pipe_send(b, s)
       ELSE pipe_send_fails(b)

\* the ProgressBar of bar b, and its Pipe with it, is dropped
pipe_drop(b) ==
    /\ b \in AlivePipes
    /\ pipes' = [ pipes EXCEPT ![b].alive = FALSE ]
    /\ UNCHANGED << phase, regState, chan, sender0, handle, renderState,
                    processed, passes, sentLog, send_failed >>

\* the MultiBar is dropped without listen: both ends it owns are released and
\* the messages still queued are discarded
multibar_drop ==
    /\ phase = "registering"
    /\ phase' = "dropped"
    /\ sender0' = FALSE
    /\ chan' = <<>>
    /\ UNCHANGED << regState, pipes, handle, renderState, processed, passes,
                    sentLog, send_failed >>

\* ------------------------------------------------------------------ listen
\* a listen that keeps the coordinator's own Sender
keep_sender0 == sender0' = sender0

\* what the start of listen does to the coordinator's own Sender
drop_sender0 == sender0' = FALSE

\* MultiBar::listen up to its first recv
listen_start ==
    /\ phase = "registering"
    /\ phase' = "listening"
    /\ drop_sender0
    /\ nlines' = 0
    /\ nblank_lines' = 0
    /\ max_width' = 0
    /\ UNCHANGED << regState, chan, pipes, handle, processed, passes,
                    sentLog, send_failed >>

\* a registry that keeps the first text a slot received
store_first_write(ls, msg) ==
    IF ls[msg.level + 1] = <<>> THEN [ ls EXCEPT ![msg.level + 1] = msg.string ] ELSE ls

\* a registry indexed from 1 ("progress bar in level 1")
store_one_based(ls, msg) ==
    IF msg.level >= 1 THEN [ ls EXCEPT ![msg.level] = msg.string ] ELSE ls

\* self.lines[msg.level] = msg.string
store(ls, msg) == [ ls EXCEPT ![msg.level + 1] = msg.string ]

\* a scan that counts every slot, the empty ones too
RECURSIVE draw_lines_count_all(_, _, _)
draw_lines_count_all(ls, i, acc) ==
    IF i > Len(ls) THEN acc
    ELSE draw_lines_count_all(ls, i + 1,
            [ out |-> IF Len(ls[i]) > 0 THEN Append(acc.out, content_line(ls[i], i - 1))
                      ELSE acc.out,
              new_nlines |-> acc.new_nlines + 1,
              max_width |-> Max(acc.max_width, Len(ls[i])) ])

\* a scan that measures the widest line of the current pass only
RECURSIVE draw_lines_pass_width(_, _, _)
draw_lines_pass_width(ls, i, acc) ==
    IF i > Len(ls) THEN acc
    ELSE IF Len(ls[i]) > 0
         THEN draw_lines_pass_width(ls, i + 1,
                 [ out |-> Append(acc.out, content_line(ls[i], i - 1)),
                   new_nlines |-> acc.new_nlines + 1,
                   max_width |-> IF acc.new_nlines = 0 THEN Len(ls[i])
                                 ELSE Max(acc.max_width, Len(ls[i])) ])
         ELSE draw_lines_pass_width(ls, i + 1, acc)

\* the scan `for l in self.lines.iter()` from index i on;
\* acc = [out, new_nlines, max_width]
RECURSIVE draw_lines(_, _, _)
draw_lines(ls, i, acc) ==
    IF i > Len(ls) THEN acc
    ELSE IF Len(ls[i]) > 0
         THEN draw_lines(ls, i + 1,
                 [ out |-> Append(acc.out, content_line(ls[i], i - 1)),
                   new_nlines |-> acc.new_nlines + 1,
                   max_width |-> Max(acc.max_width, Len(ls[i])) ])
         ELSE draw_lines(ls, i + 1, acc)

\* a cursor-up over the content lines of the previous pass only
cursor_up_content_only(nl, nb) == IF nl > 0 THEN << move_cursor_up(nl) >> ELSE <<>>

\* a cursor-up that is emitted even over zero lines
cursor_up_always(nl, nb) == << move_cursor_up(nl + nb) >>

\* the head of a pass: the cursor-up over what the previous pass drew
cursor_up(nl, nb) == IF nl + nb > 0 THEN << move_cursor_up(nl + nb) >> ELSE <<>>

\* the subtraction with its operands exchanged
blank_count_swapped(nl, new_nlines) == new_nlines - Min(nl, new_nlines)

\* the distance between the two counts instead of the clamped difference
blank_count_abs(nl, new_nlines) ==
    IF nl >= new_nlines THEN nl - new_nlines ELSE new_nlines - nl

\* nblank_lines = nlines - new_nlines.min(nlines)
blank_count(nl, new_nlines) == nl - Min(new_nlines, nl)

\* one redraw pass over the registry ls with the render state (nl, nb, mw):
\* the output buffer and the new render state
redraw(ls, nl, nb, mw) ==
    LET d == draw_lines(ls, 1, [ out |-> cursor_up(nl, nb), new_nlines |-> 0,
                                 max_width |-> mw ])
        b == blank_count(nl, d.new_nlines)
    IN  [ out |-> d.out \o [ k \in 1..b |-> padding_line(d.max_width) ],
          nlines |-> d.new_nlines,
          nblank_lines |-> b,
          max_width |-> d.max_width,
          underflow |-> (b > 0 /\ d.max_width = 0) ]

\* one iteration of `while let Ok(msg) = self.chan.1.recv()`
recv ==
    /\ phase = "listening"
    /\ chan # <<>>
    /\ LET msg == Head(chan) IN
       IF msg.level >= Len(lines)
       THEN \* index out of bounds: panic
            /\ phase' = "panicked"
            /\ chan' = Tail(chan)
            /\ UNCHANGED << regState, sender0, pipes, handle, renderState,
                            processed, passes, sentLog, send_failed >>
       ELSE LET r == redraw(store(lines, msg), nlines, nblank_lines, max_width) IN
            /\ chan' = Tail(chan)
            /\ lines' = store(lines, msg)
            /\ processed' = Append(processed, msg)
            /\ IF r.underflow
               THEN \* max_width - 1 with max_width = 0: panic
                    /\ phase' = "panicked"
                    /\ UNCHANGED << handle, renderState, passes >>
               ELSE /\ nlines' = r.nlines
                    /\ nblank_lines' = r.nblank_lines
                    /\ max_width' = r.max_width
                    /\ handle' = printfl(handle, r.out)
                    /\ passes' = passes + 1
                    /\ UNCHANGED phase
            /\ UNCHANGED << self_nlines, nbars, regKind, regText, sender0, pipes,
                            sentLog, send_failed >>

\* a termination pass whose loop runs to max_width instead of nlines
termination_width_count(h, nl, mw) ==
    IF nl > 0
    THEN printfl(printfl(h, << move_cursor_up(nl) >> \o [ k \in 1..mw |-> wipe_line(mw) ]),
                 << move_cursor_up(nl) >>)
    ELSE h

\* a termination pass over the registered lines (the field self.nlines)
\* instead of the lines last drawn
termination_registry_count(h, nl, mw) ==
    IF self_nlines > 0
    THEN printfl(printfl(h, << move_cursor_up(self_nlines) >>
                            \o [ k \in 1..self_nlines |-> wipe_line(mw) ]),
                 << move_cursor_up(self_nlines) >>)
    ELSE h

\* the writes after the loop: the termination pass
termination(h, nl, mw) ==
    IF nl > 0
    THEN printfl(printfl(h, << move_cursor_up(nl) >> \o [ k \in 1..nl |-> wipe_line(mw) ]),
                 << move_cursor_up(nl) >>)
    ELSE h

\* a loop that ends once every Sender is dropped, messages still queued or not
recv_closed_lossy ==
    /\ phase = "listening"
    /\ Disconnected
    /\ IF nlines > 0 /\ max_width = 0
       THEN phase' = "panicked" /\ UNCHANGED handle
       ELSE phase' = "returned" /\ handle' = termination(handle, nlines, max_width)
    /\ UNCHANGED << regState, chan, sender0, pipes, renderState, processed, passes,
                    sentLog, send_failed >>

\* recv() returns Err: the loop ends, the termination pass runs, listen returns
recv_closed ==
    /\ phase = "listening"
    /\ chan = <<>>
    /\ Disconnected
    /\ IF nlines > 0 /\ max_width = 0
       THEN phase' = "panicked" /\ UNCHANGED handle
       ELSE phase' = "returned" /\ handle' = termination(handle, nlines, max_width)
    /\ UNCHANGED << regState, chan, sender0, pipes, renderState, processed, passes,
                    sentLog, send_failed >>

\* ------------------------------------------------------------------ specification
Next ==
    \/ \E s \in Texts : println(s)
    \/ \E t \in NonEmptyTexts : create_bar(t)
    \/ \E b \in 1..MaxLines, s \in Texts : pipe_write(b, s)
    \/ \E b \in 1..MaxLines : pipe_drop(b)
    \/ multibar_drop
    \/ listen_start
    \/ recv
    \/ recv_closed

Spec == Init /\ [][Next]_vars

\* the coordinator thread, once in listen, is scheduled fairly
FairSpec == Spec /\ WF_vars(recv) /\ WF_vars(recv_closed)

\* ------------------------------------------------------------------ reading the sink
\* the redraw passes are the first `passes` writes; the termination pass follows them
IsLine(it) == it.op = "line"
IsContent(it) == it.op = "line" /\ it.n = 1
IsPadding(it) == it.op = "line" /\ it.n = 2
IsUp(it) == it.op = "up"
IsNonEmpty(l) == l # <<>>
AllSpaces(t) == \A i \in 1..Len(t) : t[i] = " "

Content(out) == SelectSeq(out, IsContent)
LinesOf(out) == SelectSeq(out, IsLine)
TextsOf(items) == [ i \in 1..Len(items) |-> items[i].text ]
NonEmptyLines == SelectSeq(lines, IsNonEmpty)
NonEmptySlots == { i \in 1..Len(lines) : lines[i] # <<>> }

\* the row the cursor is on after the items of out, from row `row` (rows grow downwards)
RECURSIVE RowAfter(_, _)
RowAfter(out, row) ==
    IF out = <<>> THEN row
    ELSE RowAfter(Tail(out), IF IsUp(Head(out)) THEN row - Head(out).n ELSE row + 1)

\* the row the cursor is on after the first k writes; the first write starts on row 0
RECURSIVE CursorRow(_)
CursorRow(k) == IF k = 0 THEN 0 ELSE RowAfter(handle[k], CursorRow(k - 1))

\* the rows on which out, from row `row`, writes a line (a content line, when
\* contentOnly)
RECURSIVE RowsOf(_, _, _)
RowsOf(out, row, contentOnly) ==
    IF out = <<>> THEN {}
    ELSE LET it == Head(out) IN
         IF IsUp(it) THEN RowsOf(Tail(out), row - it.n, contentOnly)
         ELSE (IF contentOnly => IsContent(it) THEN { row } ELSE {})
              \cup RowsOf(Tail(out), row + 1, contentOnly)

\* the rows that hold content lines after the last redraw pass
LastContentRows ==
    IF passes = 0 THEN {} ELSE RowsOf(handle[passes], CursorRow(passes - 1), TRUE)

\* the rows the termination pass writes on
TerminationRows ==
    UNION { RowsOf(handle[k], CursorRow(k - 1), FALSE) : k \in (passes + 1)..Len(handle) }

\* the slot (1-based) the b-th create_bar call reserved
RECURSIVE NthBar(_, _)
NthBar(b, i) ==
    IF i > Len(regKind) THEN 0
    ELSE IF regKind[i] = "bar" THEN (IF b = 1 THEN i ELSE NthBar(b - 1, i + 1))
    ELSE NthBar(b, i + 1)

\* the text of slot s (0-based) after the first k processed messages
RECURSIVE LastFor(_, _)
LastFor(s, k) ==
    IF k = 0 THEN regText[s + 1]
    ELSE IF processed[k].level = s THEN processed[k].string
    ELSE LastFor(s, k - 1)

\* the positions in out of the lines drawn from slot s (0-based)
PosOf(out, s) == { i \in 1..Len(out) : out[i].op = "line" /\ out[i].slot = s }

\* ------------------------------------------------------------------ C1
\* C1: listen never returns while a bar-owned sender is still alive: whenever
\* listen has returned, every Pipe has been dropped, whatever the number of
\* bars and the order in which they released their senders.
C1_NoReturnWhileSenderAlive ==
    phase = "returned" => AlivePipes = {}

\* two bars, the second released before the first, the loop blocked on recv
C1_Witness ==
    /\ phase = "listening"
    /\ chan = <<>>
    /\ Len(pipes) = 2
    /\ ~pipes[2].alive
    /\ pipes[1].alive
    /\ passes >= 2

\* ------------------------------------------------------------------ C2
\* C2: once listen runs and every bar's Pipe is dropped, listen eventually
\* returns, under fair scheduling of the coordinator thread.
C2_ListenTerminates ==
    (phase = "listening" /\ AlivePipes = {}) ~> (phase = "returned")

\* listen returned after draining messages of two bars
C2_Witness ==
    /\ phase = "returned"
    /\ Len(pipes) = 2
    /\ passes >= 3

\* ------------------------------------------------------------------ C3
\* C3: last-write-wins per slot: the registry text of every slot is the text of
\* the last processed message addressed to it, or its registration-time text
\* when no message for it was processed.
C3_LastWriteWins ==
    /\ Len(regText) = Len(lines)
    /\ \A i \in 1..Len(lines) : lines[i] = LastFor(i - 1, Len(processed))

\* a slot rewritten with a different text, then a message for another slot
C3_Witness ==
    \E i, j, k \in 1..Len(processed) :
        /\ i < j /\ j < k
        /\ processed[i].level = processed[j].level
        /\ processed[i].string # processed[j].string
        /\ processed[k].level # processed[j].level

\* ------------------------------------------------------------------ C4
\* C4: in every redraw pass the content lines are exactly the non-empty registry
\* slots at that instant, in increasing slot order, each written as one
\* carriage return, the text and a newline; new_nlines is their number.
C4_RedrawLineCount ==
    (passes > 0 /\ phase # "panicked") =>
        LET c == Content(handle[passes]) IN
        /\ Len(c) = Cardinality(NonEmptySlots)
        /\ nlines = Cardinality(NonEmptySlots)
        /\ TextsOf(c) = NonEmptyLines
        /\ \A i \in 1..Len(c) : c[i].slot + 1 \in NonEmptySlots
        /\ \A i, j \in 1..Len(c) : i < j => c[i].slot < c[j].slot

\* a pass drawn while one slot was empty and another was not
C4_Witness ==
    /\ passes > 0
    /\ NonEmptySlots # {}
    /\ NonEmptySlots # 1..Len(lines)

\* ------------------------------------------------------------------ C5
\* C5: slots are assigned 0, 1, 2, ... in call order without reuse; the Pipe of
\* the Nth create_bar call is bound to the slot that call reserved, which is
\* greater than the slot of every earlier bar; in every redraw pass that draws
\* two bars the earlier-created bar's line comes first.
C5_SlotOrder ==
    /\ Len(lines) = Len(regKind)
    /\ self_nlines = Len(lines)
    /\ nbars = Len(pipes)
    /\ nbars = Cardinality({ i \in 1..Len(regKind) : regKind[i] = "bar" })
    /\ phase = "registering" => lines = regText
    /\ \A b \in 1..Len(pipes) : pipes[b].level + 1 = NthBar(b, 1)
    /\ \A b1, b2 \in 1..Len(pipes) : b1 < b2 => pipes[b1].level < pipes[b2].level
    /\ \A k \in 1..passes : \A b1, b2 \in 1..Len(pipes) :
           b1 < b2 =>
               \A i \in PosOf(handle[k], pipes[b1].level),
                  j \in PosOf(handle[k], pipes[b2].level) : i < j

\* a pass that drew two bars, the first created after a static line or not
C5_Witness ==
    /\ Len(pipes) = 2
    /\ passes >= 2
    /\ PosOf(handle[passes], pipes[1].level) # {}
    /\ PosOf(handle[passes], pipes[2].level) # {}

\* ------------------------------------------------------------------ C6
\* C6: after the termination pass the cursor is on the top row of the region
\* (row 0, where the first pass started drawing), and the rows the termination
\* pass blanked are exactly the rows that held content lines after the last
\* redraw pass.
C6_CursorBackAtTop ==
    phase = "returned" =>
        /\ CursorRow(Len(handle)) = 0
        /\ TerminationRows = LastContentRows

\* ------------------------------------------------------------------ C7
\* C7: the termination pass writes exactly as many blank lines as the last
\* redraw pass wrote content lines (the last recorded nlines), between two
\* cursor-ups by that count; when that count is zero it writes nothing.
C7_FinalBlanking ==
    phase = "returned" =>
        LET n == IF passes = 0 THEN 0 ELSE Len(Content(handle[passes])) IN
        /\ n = nlines
        /\ IF n = 0
           THEN Len(handle) = passes
           ELSE /\ Len(handle) = passes + 2
                /\ Len(handle[passes + 1]) = n + 1
                /\ handle[passes + 1][1] = move_cursor_up(n)
                /\ \A i \in 2..(n + 1) :
                       /\ IsLine(handle[passes + 1][i])
                       /\ AllSpaces(handle[passes + 1][i].text)
                /\ handle[passes + 2] = << move_cursor_up(n) >>

\* listen returned after a last pass that drew a line of width 2
C7_Witness ==
    /\ phase = "returned"
    /\ passes > 0
    /\ nlines > 0
    /\ max_width = 2

\* ------------------------------------------------------------------ C8
\* C8: a step of a bar thread (Pipe::write, or dropping the Pipe) leaves the
\* registry, the render state and the sink unchanged; the sink is written, the
\* render state is set and the text of a registered slot is replaced only by
\* steps of the coordinator's listen.
C8_SingleWriter ==
    [][ /\ (\E b \in 1..MaxLines : (\E s \in Texts : pipe_write(b, s)) \/ pipe_drop(b))
            => UNCHANGED << lines, nlines, nblank_lines, max_width, handle >>
        /\ handle' # handle => (recv \/ recv_closed)
        /\ << nlines, nblank_lines, max_width >>' # << nlines, nblank_lines, max_width >>
            => (recv \/ listen_start)
        /\ (\E i \in 1..Len(lines) : lines'[i] # lines[i]) => recv
      ]_vars

\* a bar wrote, after a pass was drawn, a text its slot does not hold yet
C8_Witness ==
    /\ phase = "listening"
    /\ passes >= 1
    /\ chan # <<>>
    /\ Sent > nbars
    /\ lines[chan[Len(chan)].level + 1] # chan[Len(chan)].string

\* ------------------------------------------------------------------ C9
\* C9 as stated: when two consecutively processed messages carry the same text
\* for the same slot, the two passes emit the same content lines and the second
\* pass starts with a cursor-up and re-emits every non-empty line.
C9_Original ==
    (passes >= 2 /\ phase # "panicked" /\ processed[passes] = processed[passes - 1]) =>
        /\ TextsOf(Content(handle[passes])) = TextsOf(Content(handle[passes - 1]))
        /\ TextsOf(Content(handle[passes])) = NonEmptyLines
        /\ handle[passes] # <<>>
        /\ IsUp(handle[passes][1])

\* C9 as amended: the two passes emit the same content lines, the second pass
\* re-emits every non-empty line, and it starts with a cursor-up, by the number
\* of lines the first pass emitted, exactly when the first pass emitted a line.
C9_Idempotent ==
    (passes >= 2 /\ phase # "panicked" /\ processed[passes] = processed[passes - 1]) =>
        LET prev == Len(LinesOf(handle[passes - 1])) IN
        /\ TextsOf(Content(handle[passes])) = TextsOf(Content(handle[passes - 1]))
        /\ TextsOf(Content(handle[passes])) = NonEmptyLines
        /\ IF prev > 0
           THEN /\ handle[passes] # <<>>
                /\ handle[passes][1] = move_cursor_up(prev)
           ELSE \A i \in 1..Len(handle[passes]) : ~IsUp(handle[passes][i])

\* the same non-empty text twice for a slot, two lines drawn in both passes
C9_Witness ==
    /\ passes >= 2
    /\ processed[passes] = processed[passes - 1]
    /\ processed[passes].string # <<>>
    /\ Len(Content(handle[passes])) = 2
    /\ IsUp(handle[passes][1])

\* ------------------------------------------------------------------ C10
\* what C10 says of every static slot: its registry text is the registered one,
\* no message targets it, and every pass draws a non-empty static line once,
\* as registered, above the line of every bar created after it.
StaticSlots == { i \in 1..Len(regKind) : regKind[i] = "static" }
StaticLinesConstant ==
    \A i \in StaticSlots :
        /\ i <= Len(lines) /\ lines[i] = regText[i]
        /\ \A m \in 1..Len(chan) : chan[m].level # i - 1
        /\ \A m \in 1..Len(processed) : processed[m].level # i - 1
        /\ regText[i] # <<>> =>
               \A k \in 1..passes :
                   /\ Cardinality(PosOf(handle[k], i - 1)) = 1
                   /\ \A p \in PosOf(handle[k], i - 1) :
                          /\ handle[k][p] = content_line(regText[i], i - 1)
                          /\ \A b \in 1..Len(pipes) :
                                 pipes[b].level > i - 1 =>
                                     \A q \in PosOf(handle[k], pipes[b].level) : p < q
HeaderThenBar == regKind = << "static", "bar" >> /\ regText[1] # <<>>

\* C10 as stated: static lines are constant and always shown, and with one
\* header and one bar every pass shows two content lines.
C10_Original ==
    /\ StaticLinesConstant
    /\ HeaderThenBar => \A k \in 1..passes : Len(Content(handle[k])) = 2

\* C10 as amended: static lines are constant and always shown, and with one
\* header and one bar a pass shows two content lines when the processed message
\* carries a non-empty text, and the header alone when it carries an empty one.
C10_StaticConstant ==
    /\ StaticLinesConstant
    /\ HeaderThenBar =>
           \A k \in 1..passes :
               Len(Content(handle[k])) = IF processed[k].string # <<>> THEN 2 ELSE 1

\* a header and a bar, three passes, the bar's text changing between them
C10_Witness ==
    /\ HeaderThenBar
    /\ passes >= 3
    /\ \A k \in 1..passes : Len(Content(handle[k])) = 2
    /\ processed[1].string # processed[2].string

\* ------------------------------------------------------------------ C11
Padding(out) == SelectSeq(out, IsPadding)
Ups(out) == SelectSeq(out, IsUp)
\* the number of lines (content and blank-padding) pass k emitted; 0 for k = 0
TotalLines(k) == IF k = 0 THEN 0 ELSE Len(LinesOf(handle[k]))
\* the row on which pass k writes its first line
StartRow(k) == RowAfter(Ups(handle[k]), CursorRow(k - 1))

\* C11: every redraw pass starts with one cursor-up by the number of lines
\* (content plus blank-padding) the previous pass emitted, and with no cursor-up
\* at all when the previous pass emitted no line (or there was none); so every
\* pass begins writing on the same row.
C11_StableTop ==
    phase # "panicked" =>
        \A k \in 1..passes :
            /\ IF TotalLines(k - 1) > 0
               THEN /\ handle[k] # <<>>
                    /\ handle[k][1] = move_cursor_up(TotalLines(k - 1))
                    /\ Len(Ups(handle[k])) = 1
               ELSE Ups(handle[k]) = <<>>
            /\ StartRow(k) = 0
            /\ k = passes => nlines + nblank_lines = TotalLines(k)

\* a pass that follows a pass with a blank-padding line
C11_Witness ==
    /\ passes >= 3
    /\ Padding(handle[passes - 1]) # <<>>
    /\ Content(handle[passes - 1]) # <<>>
    /\ IsUp(handle[passes][1])
    /\ handle[passes][1].n = 2

\* ------------------------------------------------------------------ C12
\* the number of content lines pass k emitted; 0 for k = 0
ContentLines(k) == IF k = 0 THEN 0 ELSE Len(Content(handle[k]))
\* the number of blank-padding lines pass k emitted; 0 for k = 0
PaddingLines(k) == IF k = 0 THEN 0 ELSE Len(Padding(handle[k]))

\* C12 as stated: every pass emits max(0, previous_total_lines - new_nlines)
\* blank-padding lines, previous_total_lines being the content lines plus the
\* blank-padding lines of the previous pass.
C12_Original ==
    phase # "panicked" =>
        \A k \in 1..passes :
            PaddingLines(k) = Max(0, TotalLines(k - 1) - ContentLines(k))

\* C12 as amended: every pass emits max(0, previous_nlines - new_nlines)
\* blank-padding lines, previous_nlines being the content lines of the previous
\* pass alone.
C12_BlankCount ==
    phase # "panicked" =>
        \A k \in 1..passes :
            /\ PaddingLines(k) = Max(0, ContentLines(k - 1) - ContentLines(k))
            /\ k = passes => nblank_lines = PaddingLines(k)

\* a pass that blanks the row of a bar whose text became empty
C12_Witness ==
    /\ passes >= 3
    /\ PaddingLines(passes) = 1
    /\ ContentLines(passes) = 1
    /\ ContentLines(passes - 1) = 2

\* ------------------------------------------------------------------ C13
\* the greatest length of a content line emitted in the passes 1..k; 0 if none
SetMax(S) == CHOOSE x \in S : \A y \in S : y <= x
WidestLine(k) ==
    SetMax({ 0 } \cup UNION { { Len(handle[j][i].text) :
                                   i \in { i \in 1..Len(handle[j]) : IsContent(handle[j][i]) } } :
                               j \in 1..k })

\* C13: every blank-padding line is two carriage returns, max_width - 1 spaces
\* and a newline, max_width being the greatest length of a content line emitted
\* in this pass or an earlier one, not the width of the current pass's lines.
C13_PaddingWidth ==
    phase # "panicked" =>
        \A k \in 1..passes : \A i \in 1..Len(handle[k]) :
            IsPadding(handle[k][i]) =>
                /\ AllSpaces(handle[k][i].text)
                /\ Len(handle[k][i].text) = WidestLine(k) - 1

\* a blank-padding line of one space in a pass whose only content line is one
\* character wide: a line of two characters was drawn before
C13_Witness ==
    /\ passes >= 3
    /\ PaddingLines(passes) = 1
    /\ ContentLines(passes) = 1
    /\ Len(Content(handle[passes])[1].text) = 1
    /\ Len(Padding(handle[passes])[1].text) = 1

\* ------------------------------------------------------------------ C14
\* C14: max_width never decreases in a step, and it is the greatest length of a
\* content line emitted so far (0 before any line is drawn).
C14_MaxWidthMonotone ==
    [][ /\ max_width' >= max_width
        /\ phase' # "panicked" => max_width' = (WidestLine(passes))'
      ]_vars

\* max_width is 2 after a pass whose content lines are all one character wide
C14_Witness ==
    /\ passes >= 2
    /\ max_width = 2
    /\ ContentLines(passes) >= 1
    /\ \A i \in 1..ContentLines(passes) : Len(Content(handle[passes])[i].text) = 1

\* ------------------------------------------------------------------ C15
NoEmptyProcessed == \A m \in 1..Len(processed) : processed[m].string # <<>>

\* C15: while no processed message carries an empty text, the content-line count
\* never decreases from pass to pass and no blank-padding line is emitted; a
\* pass emits a blank-padding line only when its message carries the empty text
\* for a slot that the previous pass drew.
C15_ShrinkOnlyByEmpty ==
    phase # "panicked" =>
        /\ NoEmptyProcessed =>
               /\ nblank_lines = 0
               /\ \A k \in 1..passes :
                      /\ PaddingLines(k) = 0
                      /\ ContentLines(k) >= ContentLines(k - 1)
        /\ \A k \in 1..passes :
               PaddingLines(k) > 0 =>
                   /\ k >= 2
                   /\ processed[k].string = <<>>
                   /\ LastFor(processed[k].level, k - 1) # <<>>
                   /\ PosOf(handle[k - 1], processed[k].level) # {}
                   /\ PosOf(handle[k], processed[k].level) = {}

\* three passes without an empty text, the content-line count growing from 1 to 2
C15_Witness ==
    /\ passes >= 3
    /\ NoEmptyProcessed
    /\ ContentLines(1) = 1
    /\ ContentLines(passes) = 2

\* ------------------------------------------------------------------ C16
\* the messages of seq that are addressed to level lv, in their order
RECURSIVE ForLevel(_, _)
ForLevel(seq, lv) ==
    IF seq = <<>> THEN <<>>
    ELSE (IF Head(seq).level = lv THEN << Head(seq) >> ELSE <<>>) \o ForLevel(Tail(seq), lv)

IsPrefix(a, b) == Len(a) <= Len(b) /\ a = SubSeq(b, 1, Len(a))

\* C16: while the MultiBar lives, every message sent (create_bar's included) is
\* either received or still queued, in the order sent; every received message
\* caused exactly one redraw pass and one write to the sink; when listen has
\* returned nothing is left queued and the passes are as many as the messages
\* sent; the messages of one Pipe are processed in the order it sent them.
C16_NoUpdateLost ==
    phase \in { "registering", "listening", "returned" } =>
        /\ processed \o chan = sentLog
        /\ passes = Len(processed)
        /\ phase = "listening" => Len(handle) = passes
        /\ Len(handle) >= passes
        /\ \A b \in 1..Len(pipes) :
               IsPrefix(ForLevel(processed, pipes[b].level),
                        ForLevel(sentLog, pipes[b].level))
        /\ phase = "returned" =>
               /\ chan = <<>>
               /\ passes = Len(sentLog)
               /\ \A b \in 1..Len(pipes) :
                      ForLevel(processed, pipes[b].level) = ForLevel(sentLog, pipes[b].level)

\* listen returned after four messages of two bars, two of them of one bar
C16_Witness ==
    /\ phase = "returned"
    /\ Len(sentLog) = 4
    /\ passes = 4
    /\ Len(pipes) = 2
    /\ Len(ForLevel(sentLog, pipes[2].level)) >= 2

\* ------------------------------------------------------------------ C17
SlotsInBounds ==
    /\ self_nlines = Len(lines)
    /\ \A b \in 1..Len(pipes) : pipes[b].level >= 0 /\ pipes[b].level < Len(lines)
    /\ \A m \in 1..Len(chan) : chan[m].level >= 0 /\ chan[m].level < Len(lines)

\* C17: nlines is the length of lines, the level of every Pipe and of every
\* queued message is below that length, and the length does not change once
\* listen has started; so self.lines[msg.level] is always in bounds.
C17_LevelInBounds ==
    [][ /\ SlotsInBounds
        /\ SlotsInBounds'
        /\ phase # "registering" => Len(lines') = Len(lines)
        /\ recv => Head(chan).level < Len(lines) /\ Len(processed') = Len(processed) + 1
      ]_vars

\* the loop about to store into the last slot of a registry of two
C17_Witness ==
    /\ phase = "listening"
    /\ passes >= 1
    /\ Len(lines) = 2
    /\ chan # <<>>
    /\ Head(chan).level = Len(lines) - 1

\* ------------------------------------------------------------------ C18
\* C18: max_width - 1 is evaluated only with max_width >= 1, in a redraw pass
\* (nblank_lines > 0) and in the termination pass (nlines > 0), empty texts
\* included; nlines - min(new_nlines, nlines) is never negative; listen never
\* panics.
C18_NoUnderflow ==
    /\ phase # "panicked"
    /\ nlines >= 0
    /\ nblank_lines >= 0
    /\ nblank_lines > 0 => max_width >= 1
    /\ nlines > 0 => max_width >= 1
    /\ \A k \in 1..Len(handle) : \A i \in 1..Len(handle[k]) :
           (k >= passes /\ IsLine(handle[k][i]) /\ handle[k][i].slot = -1) =>
               /\ max_width >= 1
               /\ Len(handle[k][i].text) = max_width - 1

\* a blank-padding line of max_width - 1 = 0 spaces, after an empty text
C18_Witness ==
    /\ passes >= 2
    /\ nblank_lines > 0
    /\ max_width = 1
    /\ processed[passes].string = <<>>

\* ------------------------------------------------------------------ C19
\* C19: when the MultiBar is kept until listen is called (the sink of the
\* model accepts every write), no Pipe::write finds the channel closed, and the
\* Receiver is released only when every Pipe has been dropped.
C19_NoSendFails ==
    phase # "dropped" =>
        /\ ~send_failed
        /\ ~ReceiverAlive => AlivePipes = {}

\* listen returned after two bars wrote four messages, none of them failed
C19_Witness ==
    /\ phase = "returned"
    /\ ~send_failed
    /\ Len(pipes) = 2
    /\ Len(sentLog) = 4
    /\ Len(ForLevel(sentLog, pipes[1].level)) = 2

\* ------------------------------------------------------------------ C20
\* C20: with no create_bar call, whatever static lines were registered, nothing
\* is ever sent; once listen runs its receive fails at once (no Sender is left
\* and nothing is queued), no redraw pass runs, nlines stays 0, and nothing is
\* written to the sink, the termination pass included.
C20_StaticOnly ==
    nbars = 0 =>
        /\ pipes = <<>>
        /\ sentLog = <<>>
        /\ chan = <<>>
        /\ passes = 0
        /\ processed = <<>>
        /\ handle = <<>>
        /\ nlines = 0
        /\ lines = regText
        /\ phase # "panicked"
        /\ phase = "listening" => Disconnected

\* listen returned on two non-empty static lines and no bar
C20_Witness ==
    /\ phase = "returned"
    /\ nbars = 0
    /\ Len(lines) = 2
    /\ lines[1] # <<>>
    /\ lines[2] # <<>>

====
